---- MODULE Spec2Model ----
(***************************************************************************)
(* Model of the withdrawal verification pipeline of the pool repository:   *)
(*   lib/src/lib.rs          commitment scheme, inclusion root, storage    *)
(*                           membership verification, process_withdrawal   *)
(*   program/src/main.rs     the zkVM guest program (read, verify, commit) *)
(*   script/src/bin/main.rs  the operator CLI (deposit, withdraw)          *)
(*                                                                         *)
(* Representation.  Byte strings are sequences of integers.  A 256-bit     *)
(* word is WordBytes digits of radix ByteVals (32 bytes of radix 256 in    *)
(* the program; both are scaled down because TLC integers are 32 bits      *)
(* wide), so U256 arithmetic is arithmetic modulo Modulus.  keccak256 is   *)
(* a collision-free symbolic hash: its digest is the tagged preimage.      *)
(***************************************************************************)
EXTENDS Integers, Sequences, FiniteSets, TLC

VARIABLES
    overflow_checks,  \* build profile: TRUE = debug (overflow checks), FALSE = release
    pc,               \* guest program: position in main()
    stdin,            \* guest program: the byte buffer handed to read_vec
    input,            \* guest program: the deserialized WithdrawalInput
    result,           \* guest program: Result<WithdrawalData> of process_withdrawal
    committed,        \* guest program: sequence of slices passed to commit_slice
    ir_leaf,          \* compute_inclusion_root: argument commitment
    ir_branches,      \* compute_inclusion_root: argument proof
    ir_out,           \* compute_inclusion_root: outcome
    dep_out,          \* CLI deposit: what the runs so far printed
    cli_pc,           \* CLI withdraw: position in the Withdraw arm
    chain,            \* CLI withdraw: the finalized chain state served by the provider
    cli_args,         \* CLI withdraw: parsed arguments (address, secret, flags)
    cli_found,        \* CLI withdraw: found_index (Option<u64>)
    cli_proof,        \* CLI withdraw: the EIP-1186 response of get_proof
    cli_input,        \* CLI withdraw: the WithdrawalInput built at lines 127-138
    cli_result,       \* CLI withdraw: Result of process_withdrawal at line 140
    cli_public        \* CLI withdraw: public values of the program runs (execute, prove)

vars == <<overflow_checks, pc, stdin, input, result, committed,
          ir_leaf, ir_branches, ir_out, dep_out,
          cli_pc, chain, cli_args, cli_found, cli_proof, cli_input, cli_result,
          cli_public>>

guestVars == <<pc, stdin, input, result, committed>>
rootVars == <<ir_leaf, ir_branches, ir_out>>
depositVars == <<dep_out>>
cliVars == <<cli_pc, chain, cli_args, cli_found, cli_proof, cli_input, cli_result,
             cli_public>>

----------------------------------------------------------------------------
(* Bounds of the model *)

\* number of digits of a 256-bit word (32 bytes in the program)
WordBytes == 3
\* radix of one digit (256 in the program)
ByteVals == 4
\* number of digits of an address (20 bytes in the program)
AddrBytes == 2
\* largest array length the proofs of the model claim
MaxArrayLen == 2
\* how many levels beyond the width of the index the longest inclusion proof has
ExtraLevels == 1
\* largest number of deposits on the modelled chain
MaxDeposits == 3
\* largest number of runs of the deposit command
MaxDepositRuns == 3

(* Program constants *)

\* width of InclusionBranches.index (u32)
IndexBits == 32

Modulus == ByteVals ^ WordBytes

----------------------------------------------------------------------------
(* Words, integers and hashes *)

RECURSIVE FromBeSlice(_)
\* U256::from_be_slice: big-endian digits to an unsigned integer
FromBeSlice(bytes) ==
    IF bytes = <<>> THEN 0
    ELSE FromBeSlice(SubSeq(bytes, 1, Len(bytes) - 1)) * ByteVals + bytes[Len(bytes)]

\* U256::to_be_bytes::<32>: unsigned integer to WordBytes big-endian digits
ToBeBytes(n) ==
    [i \in 1..WordBytes |-> (n \div (ByteVals ^ (WordBytes - i))) % ByteVals]

\* U256::wrapping_add
WrappingAdd(a, b) == (a + b) % Modulus

\* B256::ZERO
B256Zero == [i \in 1..WordBytes |-> 0]

\* Address::with_last_byte
AddressWithLastByte(b) == [i \in 1..AddrBytes |-> IF i = AddrBytes THEN b ELSE 0]

\* keccak256 of a byte string.  The digest is symbolic: the tag -1, an offset
\* (0 for a digest) and the preimage, so distinct preimages give distinct digests.
Keccak256(bytes) == <<-1, 0>> \o bytes

\* (U256::from_be_bytes(digest) + n).to_be_bytes(): U256 `+` wraps modulo 2^256;
\* the sum of a digest and an offset is kept as that digest with the offset.
HashPlus(digest, n) == <<-1, (digest[2] + n) % Modulus>> \o SubSeq(digest, 3, Len(digest))

\* the 64-byte buffer input[..32] = a, input[32..] = b
Concat64(a, b) == <<Len(a)>> \o a \o b

----------------------------------------------------------------------------
(* Commitment scheme *)

compute_commitment_saturating(secret) ==
    LET u256 == FromBeSlice(secret)
        next == IF u256 + 1 >= Modulus THEN Modulus - 1 ELSE u256 + 1
    IN  [commitment |-> Keccak256(ToBeBytes(u256)),
         nullifier |-> Keccak256(ToBeBytes(next))]

\* lib.rs compute_commitment
compute_commitment(secret) ==
    LET u256 == FromBeSlice(secret)
    IN  [commitment |-> Keccak256(ToBeBytes(u256)),
         nullifier |-> Keccak256(ToBeBytes(WrappingAdd(u256, 1)))]

----------------------------------------------------------------------------
(* Inclusion root *)

\* A u32 is kept as the set of positions of its set bits (a subset of
\* 0..IndexBits-1), so `a & b` is intersection and `== 0` is emptiness.
BitAnd(a, b) == a \cap b

\* `1 << i` on u32 with i: usize.  For i >= 32 the shift overflows: a build with
\* overflow checks panics ("attempt to shift left with overflow"), a build
\* without them masks the shift amount to its low five bits.
ShiftLeftOne(i) ==
    IF i < IndexBits THEN [panic |-> FALSE, bits |-> {i}]
    ELSE IF overflow_checks THEN [panic |-> TRUE, bits |-> {}]
    ELSE [panic |-> FALSE, bits |-> {i % IndexBits}]

\* lib.rs:62-72, the body of the loop of compute_inclusion_root
inclusion_step(root, hash, bits, mask) ==
    IF BitAnd(bits, mask) = {}
    THEN Keccak256(Concat64(root, hash))
    ELSE Keccak256(Concat64(hash, root))

RECURSIVE inclusion_loop(_, _, _, _)
\* lib.rs:61, the loop over proof.proof.iter().enumerate(), from iteration i
\* (0-based) with the running root
inclusion_loop(root, bits, hashes, i) ==
    IF i >= Len(hashes) THEN [panic |-> FALSE, root |-> root]
    ELSE LET sh == ShiftLeftOne(i)
         IN  IF sh.panic THEN [panic |-> TRUE, root |-> root]
             ELSE LET next == inclusion_step(root, hashes[i + 1], bits, sh.bits)
                  \* a digest is never empty: the test has TLC compute the
                  \* digest of this level before it enters the next one
                  IN  IF next = <<>> THEN [panic |-> FALSE, root |-> next]
                      ELSE inclusion_loop(next, bits, hashes, i + 1)

\* lib.rs compute_inclusion_root
compute_inclusion_root(commitment, proof) ==
    inclusion_loop(commitment, proof.index, proof.proof, 0)

----------------------------------------------------------------------------
(* RLP and trie proofs *)

RECURSIVE TrimLeadingZeros(_)
TrimLeadingZeros(bytes) ==
    IF bytes # <<>> /\ bytes[1] = 0 THEN TrimLeadingZeros(Tail(bytes)) ELSE bytes

\* rlp::encode of a byte string: a string header (0x80 + length) and the bytes
RlpBytes(bytes) == <<128 + Len(bytes)>> \o bytes

\* rlp::encode of an unsigned integer: the big-endian digits without leading
\* zeros; a single digit below 0x80 is its own encoding, zero is the empty string
RlpUint(n) ==
    LET digits == TrimLeadingZeros(ToBeBytes(n))
    IN  IF Len(digits) = 1 THEN digits ELSE RlpBytes(digits)

\* rlp::encode of TrieAccount: the list (nonce, balance, storage_root, code_hash)
RlpAccount(account) ==
    LET payload == RlpUint(account.nonce) \o RlpUint(account.balance)
                   \o RlpBytes(account.storage_root) \o RlpBytes(account.code_hash)
    IN  <<192, Len(payload)>> \o payload

\* Nibbles::unpack of a digest: the trie path of a hashed key
NibblesUnpack(digest) == <<-3>> \o digest

\* A trie proof is kept as what its nodes authenticate: the root the first node
\* hashes to, the path the nodes walk, and the value in the leaf (<<>> when the
\* nodes show the key absent).  The empty record is a proof that verifies nothing.
TrieProof(root, path, value) == [root |-> root, path |-> path, value |-> value]
NoProof == TrieProof(<<>>, <<>>, <<>>)

\* alloy_trie::proof::verify_proof(root, key, Some(value), proof)
verify_proof(root, key, value, proof) ==
    /\ proof.root = root
    /\ proof.path = key
    /\ proof.value = value

\* lib.rs verify_mpt_proof.  rlp_value is rlp::encode(raw_value): the Encodable
\* implementation is fixed by the type of raw_value at each call site.
verify_mpt_proof(root, raw_key, rlp_value, proof) ==
    LET key == NibblesUnpack(Keccak256(raw_key))
    IN  IF verify_proof(root, key, rlp_value, proof) THEN "ok" ELSE "invalid proof"

----------------------------------------------------------------------------
(* Storage membership *)

\* lib.rs:99-104, the TrieAccount built from the proof response
TrieAccountOf(proof) ==
    [nonce |-> proof.nonce, balance |-> proof.balance,
     code_hash |-> proof.code_hash, storage_root |-> proof.storage_hash]

IndexInRange_inclusive(array_index, len) == array_index <= len

\* lib.rs:120, `*array_index < array_len_proof.value` on U256 (unsigned)
IndexInRange(array_index, len) == array_index < len

\* lib.rs:125-126 (and 152-154): index_key = keccak256(array_slot) + array_index,
\* as 32 big-endian bytes
ElementKey(array_slot, array_index) ==
    LET base_key == Keccak256(ToBeBytes(array_slot))
    IN  HashPlus(base_key, array_index)

verify_storage_proofs_own_roots(array_slot, commitment, array_index, proof) ==
    IF ~(Len(proof.storage_proof) = 2) THEN "invalid storage proof"
    ELSE
    LET array_len_proof == proof.storage_proof[1]
        len_ok == verify_mpt_proof(array_len_proof.proof.root, ToBeBytes(array_slot),
                                   RlpUint(array_len_proof.value),
                                   array_len_proof.proof)
    IN  IF len_ok # "ok" THEN len_ok
        ELSE IF ~IndexInRange(array_index, array_len_proof.value)
             THEN "invalid array index"
        ELSE
        LET commitment_proof == proof.storage_proof[2]
            index_key == ElementKey(array_slot, array_index)
        IN  verify_mpt_proof(commitment_proof.proof.root, index_key,
                             RlpBytes(commitment), commitment_proof.proof)

\* lib.rs:107-134, the storage part of verify_storage_slot
verify_storage_proofs(array_slot, commitment, array_index, proof) ==
    \* Verify storage proofs
    IF ~(Len(proof.storage_proof) = 2) THEN "invalid storage proof"
    ELSE
    \* First storage proof: len of array, key is array_slot
    LET array_len_proof == proof.storage_proof[1]
        len_ok == verify_mpt_proof(proof.storage_hash, ToBeBytes(array_slot),
                                   RlpUint(array_len_proof.value),
                                   array_len_proof.proof)
    IN  IF len_ok # "ok" THEN len_ok
        \* Ensure array_index is in range
        ELSE IF ~IndexInRange(array_index, array_len_proof.value)
             THEN "invalid array index"
        ELSE
        \* Verify storage_hash -> array[array_index] == commitment
        LET commitment_proof == proof.storage_proof[2]
            index_key == ElementKey(array_slot, array_index)
        IN  verify_mpt_proof(proof.storage_hash, index_key,
                             RlpBytes(commitment), commitment_proof.proof)

verify_storage_slot_account_first(contract_address, array_slot, commitment, array_index, state_root, proof) ==
    LET account == TrieAccountOf(proof)
        account_ok == verify_mpt_proof(state_root, proof.address,
                                       RlpAccount(account), proof.account_proof)
    IN  IF account_ok # "ok" THEN account_ok
        ELSE IF ~(contract_address = proof.address) THEN "invalid contract address"
        ELSE verify_storage_proofs(array_slot, commitment, array_index, proof)

\* lib.rs verify_storage_slot: "ok", or the message of the eyre report returned
verify_storage_slot(contract_address, array_slot, commitment, array_index, state_root, proof) ==
    \* Verify contract address
    IF ~(contract_address = proof.address) THEN "invalid contract address"
    ELSE
    \* Verify account proof from state_root
    LET account == TrieAccountOf(proof)
        account_ok == verify_mpt_proof(state_root, proof.address,
                                       RlpAccount(account), proof.account_proof)
    IN  IF account_ok # "ok" THEN account_ok
        ELSE verify_storage_proofs(array_slot, commitment, array_index, proof)

\* lib.rs compute_storage_keys
compute_storage_keys(array_slot, array_index) ==
    <<ToBeBytes(array_slot), ElementKey(array_slot, array_index)>>

----------------------------------------------------------------------------
(* Withdrawal processor *)

\* Header::num_hash_slow: the number of the header and the keccak of its RLP
\* (of the header's fields the model keeps the state root and the number)
hash_block_header(header) ==
    [number |-> header.number,
     hash |-> Keccak256(<<192>> \o RlpBytes(header.state_root) \o RlpUint(header.number))]

WithdrawalData(nullifier, blockHash, exclusionSetRoot, relayerFee, recipient, relayer, contractAddress, blockNumber) ==
    [nullifier |-> nullifier, blockHash |-> blockHash,
     exclusionSetRoot |-> exclusionSetRoot, relayerFee |-> relayerFee,
     recipient |-> recipient, relayer |-> relayer,
     contractAddress |-> contractAddress, blockNumber |-> blockNumber]

NoData ==
    WithdrawalData(<<>>, <<>>, <<>>, 0, <<>>, <<>>, <<>>, 0)

\* Result<WithdrawalData>: Ok(data), Err(report with msg), or a panic inside the call
OkResult(data) == [status |-> "ok", msg |-> "", data |-> data]
ErrResult(msg) == [status |-> "err", msg |-> msg, data |-> NoData]
PanicResult == [status |-> "panic", msg |-> "attempt to shift left with overflow",
                data |-> NoData]
NoResult == [status |-> "none", msg |-> "", data |-> NoData]

\* Option<InclusionBranches>
NoBranches == [present |-> FALSE, index |-> {}, proof |-> <<>>]
SomeBranches(index, proof) == [present |-> TRUE, index |-> index, proof |-> proof]

process_withdrawal_wrapped_error(in) ==
    LET cn == compute_commitment(in.secret)
        verified == verify_storage_slot(in.contract_address, in.array_slot,
                                        cn.commitment, in.array_index,
                                        in.block_header.state_root, in.account_proof)
    IN  IF verified # "ok" THEN ErrResult("withdrawal verification failed")
        ELSE OkResult(NoData)

\* lib.rs process_withdrawal
process_withdrawal(in) ==
    LET cn == compute_commitment(in.secret)
        state_root == in.block_header.state_root
        block_hash == hash_block_header(in.block_header)
        \* Verify storage proofs
        verified == verify_storage_slot(in.contract_address, in.array_slot,
                                        cn.commitment, in.array_index,
                                        state_root, in.account_proof)
    IN  IF verified # "ok" THEN ErrResult(verified)
        ELSE
        LET computed == IF in.inclusion_set_branches.present
                        THEN compute_inclusion_root(cn.commitment,
                                                    in.inclusion_set_branches)
                        ELSE [panic |-> FALSE, root |-> B256Zero]
        IN  IF computed.panic THEN PanicResult
            ELSE OkResult(WithdrawalData(
                     cn.nullifier, block_hash.hash, computed.root,
                     in.relayer_fee, in.recipient, in.relayer,
                     in.contract_address, block_hash.number))

----------------------------------------------------------------------------
(* ABI encoding of the output *)

\* a 20-byte address in a 32-byte slot: left-padded with zeros
AbiAddress(a) == [i \in 1..(WordBytes - Len(a)) |-> 0] \o a

\* a uint256 or uint64 in a 32-byte slot: big-endian, left-padded with zeros
AbiUint(n) == ToBeBytes(n)

abi_encode_number_second(data) ==
    << data.nullifier, AbiUint(data.blockNumber), data.blockHash,
       data.exclusionSetRoot, AbiUint(data.relayerFee), AbiAddress(data.recipient),
       AbiAddress(data.relayer), AbiAddress(data.contractAddress) >>

\* SolValue::abi_encode of WithdrawalData, lib.rs:12-24: one 32-byte slot per
\* field, in the order the sol! struct declares the fields
abi_encode(data) ==
    << data.nullifier, data.blockHash, data.exclusionSetRoot,
       AbiUint(data.relayerFee), AbiAddress(data.recipient),
       AbiAddress(data.relayer), AbiAddress(data.contractAddress),
       AbiUint(data.blockNumber) >>

----------------------------------------------------------------------------
(* Input serialization *)

\* serde_cbor::to_vec of a WithdrawalInput
cbor_to_vec(in) == [wellformed |-> TRUE, payload |-> in]

\* serde_cbor::from_slice::<WithdrawalInput>: the input, or a decoding error
cbor_from_slice(bytes) == [ok |-> bytes.wellformed, value |-> bytes.payload]

----------------------------------------------------------------------------
(* The chain: world state, storage layout and proofs of the provider *)

AddrA == AddressWithLastByte(1)
AddrB == AddressWithLastByte(2)
StateRootA == Keccak256(<<101>>)
StateRootB == Keccak256(<<102>>)
StorageRootA == Keccak256(<<201>>)
StorageRootB == Keccak256(<<202>>)
CodeHash == Keccak256(<<>>)
StorageRoots == {StorageRootA, StorageRootB}
StateRoots == {StateRootA, StateRootB}
Addresses == {AddrA, AddrB}

\* the trie path of a storage slot or of an account: the hash of the raw key
PathOf(raw_key) == <<-3, -1, 0>> \o raw_key

\* storage slot of deposits[i] for the dynamic array declared at `slot`
\* (Solidity layout: keccak256(slot) + i)
SlotOfElement(slot, i) == <<-1, i % Modulus>> \o ToBeBytes(slot)

\* the account proof of `address` in the state trie `state_root`, for an
\* account with storage root `storage_root`
AccountProofFor(state_root, address, storage_root) ==
    TrieProof(state_root, PathOf(address),
              RlpAccount([nonce |-> 1, balance |-> 0, code_hash |-> CodeHash,
                          storage_root |-> storage_root]))

\* EIP1186StorageProof {key, value, proof}
StorageProof(key, value, proof) == [key |-> key, value |-> value, proof |-> proof]

\* EIP1186AccountProofResponse
ProofResponse(address, storage_hash, account_proof, storage_proof) ==
    [address |-> address, nonce |-> 1, balance |-> 0, code_hash |-> CodeHash,
     storage_hash |-> storage_hash, account_proof |-> account_proof,
     storage_proof |-> storage_proof]

\* Header
Header(state_root, number) == [state_root |-> state_root, number |-> number]

\* WithdrawalInput
WithdrawalInput(secret, array_index, account_proof, block_header, inclusion_set_branches, contract_address, array_slot, relayer_fee, recipient, relayer) ==
    [secret |-> secret, array_index |-> array_index,
     account_proof |-> account_proof, block_header |-> block_header,
     inclusion_set_branches |-> inclusion_set_branches,
     contract_address |-> contract_address, array_slot |-> array_slot,
     relayer_fee |-> relayer_fee, recipient |-> recipient, relayer |-> relayer]

NoInput ==
    WithdrawalInput(B256Zero, 0, ProofResponse(AddrA, StorageRootA, NoProof, <<>>),
                    Header(StateRootA, 0), NoBranches, AddrA, 0, 0,
                    AddressWithLastByte(0), AddressWithLastByte(0))

----------------------------------------------------------------------------
(* Inputs of the guest program *)

Secrets == {ToBeBytes(1), ToBeBytes(Modulus - 1)}
ArrayIndexes == 0..MaxArrayLen
ArraySlots == {0, 1}

\* a storage proof of the array length: `claimed` is the value field of the
\* response, `proved` the value the proof nodes authenticate
LengthProofs ==
    {StorageProof(ToBeBytes(0), n, TrieProof(r, PathOf(ToBeBytes(0)), RlpUint(n))) :
        r \in StorageRoots, n \in {0, MaxArrayLen}}
    \cup {StorageProof(ToBeBytes(0), MaxArrayLen,
                       TrieProof(StorageRootA, PathOf(ToBeBytes(0)), RlpUint(1)))}

\* a storage proof of an element: the commitment of secret 1 at index i
ElementProofs ==
    {StorageProof(SlotOfElement(0, i), 0,
                  TrieProof(r, PathOf(SlotOfElement(0, i)),
                            RlpBytes(Keccak256(ToBeBytes(1))))) :
        r \in StorageRoots, i \in {0, MaxArrayLen - 1, MaxArrayLen}}
    \cup {StorageProof(SlotOfElement(0, 0), 0, NoProof)}

GoodLengthProof ==
    StorageProof(ToBeBytes(0), MaxArrayLen,
                 TrieProof(StorageRootA, PathOf(ToBeBytes(0)), RlpUint(MaxArrayLen)))
GoodElementProof ==
    StorageProof(SlotOfElement(0, 0), 0,
                 TrieProof(StorageRootA, PathOf(SlotOfElement(0, 0)),
                           RlpBytes(Keccak256(ToBeBytes(1)))))

StorageProofLists ==
    {<<>>} \cup {<<l>> : l \in LengthProofs}
    \cup {<<l, e>> : l \in LengthProofs, e \in ElementProofs}
    \cup {<<GoodLengthProof, GoodElementProof, GoodElementProof>>}

AccountProofs ==
    {AccountProofFor(StateRootA, AddrA, r) : r \in StorageRoots}

ProofResponses ==
    {ProofResponse(a, sh, ap, sp) :
        a \in Addresses, sh \in StorageRoots, ap \in AccountProofs,
        sp \in StorageProofLists}

\* sibling hash number k
Sibling(k) == Keccak256(<<300 + k>>)
\* an inclusion proof with n siblings
Siblings(n) == [k \in 1..n |-> Sibling(k)]

BranchInputs ==
    {NoBranches,
     SomeBranches({}, <<>>),
     SomeBranches({0}, Siblings(2)),
     SomeBranches({0}, Siblings(IndexBits + ExtraLevels))}

GuestInputs ==
    {WithdrawalInput(s, ai, pr, Header(sr, 5), br, ca, sl, 7,
                     AddressWithLastByte(3), AddrB) :
        s \in Secrets, ai \in ArrayIndexes, pr \in ProofResponses,
        sr \in StateRoots, br \in BranchInputs, ca \in Addresses, sl \in ArraySlots}

----------------------------------------------------------------------------
(* The guest program, program/src/main.rs *)

GuestInit ==
    /\ pc = "start"
    /\ stdin \in {cbor_to_vec(in) : in \in GuestInputs}
                 \cup {[wellformed |-> FALSE, payload |-> NoInput]}
    /\ input = NoInput
    /\ result = NoResult
    /\ committed = <<>>

\* main.rs:9-10: read_vec, from_slice(..).unwrap()
Deserialize ==
    /\ pc = "start"
    /\ LET decoded == cbor_from_slice(stdin)
       IN  IF decoded.ok
           THEN /\ input' = decoded.value
                /\ pc' = "deserialized"
           ELSE /\ input' = input
                /\ pc' = "aborted"
    /\ UNCHANGED <<stdin, result, committed>>

Process_unchecked ==
    /\ pc = "deserialized"
    /\ result' = process_withdrawal(input)
    /\ pc' = "processed"
    /\ UNCHANGED <<stdin, input, committed>>

\* main.rs:12: process_withdrawal(&input).unwrap()
Process ==
    /\ pc = "deserialized"
    /\ result' = process_withdrawal(input)
    /\ pc' = IF result'.status = "ok" THEN "processed" ELSE "aborted"
    /\ UNCHANGED <<stdin, input, committed>>

\* main.rs:14: commit_slice(&data.abi_encode())
Commit ==
    /\ pc = "processed"
    /\ committed' = Append(committed, abi_encode(result.data))
    /\ pc' = "done"
    /\ UNCHANGED <<stdin, input, result>>

\* the whole of main() on one input buffer: the committed slices, or an abort
guest_main(bytes) ==
    LET decoded == cbor_from_slice(bytes)
        data == process_withdrawal(decoded.value)
    IN  IF ~decoded.ok \/ data.status # "ok"
        THEN [aborted |-> TRUE, committed |-> <<>>]
        ELSE [aborted |-> FALSE, committed |-> <<abi_encode(data.data)>>]

----------------------------------------------------------------------------
(* compute_inclusion_root applied to drawn arguments *)

RootIdle ==
    /\ ir_leaf = <<>>
    /\ ir_branches = NoBranches
    /\ ir_out = [state |-> "idle", root |-> <<>>]

RootInit ==
    /\ ir_leaf \in {B256Zero, Keccak256(ToBeBytes(1))}
    /\ ir_branches \in {SomeBranches(ix, Siblings(n)) :
                           ix \in SUBSET {0, 1, IndexBits - 1},
                           n \in 0..(IndexBits + ExtraLevels)}
    /\ ir_out = [state |-> "none", root |-> <<>>]

\* a call of compute_inclusion_root(ir_leaf, ir_branches)
ComputeRoot ==
    /\ ir_out.state = "none"
    /\ LET r == compute_inclusion_root(ir_leaf, ir_branches)
       IN  ir_out' = IF r.panic THEN [state |-> "panicked", root |-> <<>>]
                     ELSE [state |-> "returned", root |-> r.root]
    /\ UNCHANGED <<ir_leaf, ir_branches>>

----------------------------------------------------------------------------
(* The CLI, script/src/bin/main.rs: deposit *)

\* the 32-byte values drawn for the random secret: the smallest and the largest
DepositSecrets == {ToBeBytes(n) : n \in {0, 1, 2, Modulus - 2, Modulus - 1}}

DepositIdle == dep_out = <<>>

\* main.rs:69-78, one run of the Deposit command: a random secret, its
\* commitment and nullifier printed
Deposit ==
    /\ Len(dep_out) < MaxDepositRuns
    /\ \E secret \in DepositSecrets :
          LET cn == compute_commitment(secret)
          IN  dep_out' = Append(dep_out, [secret |-> secret,
                                          commitment |-> cn.commitment,
                                          nullifier |-> cn.nullifier])

----------------------------------------------------------------------------
(* The CLI, script/src/bin/main.rs: withdraw *)

\* main.rs:21-26: the contract keeps `bytes32[] public deposits` at slot 0.
\* The storage of the pool contract at the finalized block, as a lookup: the
\* stored word of a slot key, <<>> for a slot that holds nothing.
StorageAt(deposits, key) ==
    IF key = ToBeBytes(0) THEN RlpUint(Len(deposits))
    ELSE IF \E i \in 1..Len(deposits) : key = SlotOfElement(0, i - 1)
         THEN LET i == CHOOSE i \in 1..Len(deposits) : key = SlotOfElement(0, i - 1)
              IN  RlpBytes(deposits[i])
         ELSE <<>>

\* provider.get_storage_at(address, slot 0): the length of the array
get_storage_at(deposits) == Len(deposits)

\* provider.get_proof(address, keys): account proof and one storage proof per
\* key, each authenticating what the storage trie holds at the key (the value
\* field is read by the verifier for the length proof only; the model keeps the
\* array length there and 0 for other slots)
get_proof(deposits, address, keys) ==
    ProofResponse(address, StorageRootA,
                  AccountProofFor(StateRootA, address, StorageRootA),
                  [k \in 1..Len(keys) |->
                      StorageProof(keys[k],
                                   IF keys[k] = ToBeBytes(0) THEN Len(deposits) ELSE 0,
                                   TrieProof(StorageRootA, PathOf(keys[k]),
                                             StorageAt(deposits, keys[k])))])

Commitments == {Keccak256(ToBeBytes(n)) : n \in {1, 2, Modulus - 1}}

CliIdle ==
    /\ cli_pc = "off"
    /\ chain = <<>>
    /\ cli_args = [address |-> AddrA, secret |-> B256Zero,
                   execute |-> FALSE, prove |-> FALSE]
    /\ cli_found = [some |-> FALSE, index |-> 0]
    /\ cli_proof = ProofResponse(AddrA, StorageRootA, NoProof, <<>>)
    /\ cli_input = NoInput
    /\ cli_result = NoResult
    /\ cli_public = <<>>

WithdrawInit ==
    /\ cli_pc = "start"
    /\ chain \in UNION {[1..n -> Commitments] : n \in 0..MaxDeposits}
    /\ cli_args \in [address : {AddrA}, secret : {ToBeBytes(1), ToBeBytes(Modulus - 1)},
                     execute : BOOLEAN, prove : BOOLEAN]
    /\ cli_found = [some |-> FALSE, index |-> 0]
    /\ cli_proof = ProofResponse(AddrA, StorageRootA, NoProof, <<>>)
    /\ cli_input = NoInput
    /\ cli_result = NoResult
    /\ cli_public = <<>>

\* main.rs:101-119: the search of the deposits array for the commitment of the
\* secret, first match wins; `ensure!(found_index.is_some())`
SearchDeposits ==
    /\ cli_pc = "start"
    /\ LET target_commitment == compute_commitment(cli_args.secret).commitment
           length == get_storage_at(chain)
           hits == {i \in 0..(length - 1) : chain[i + 1] = target_commitment}
       IN  IF hits = {}
           THEN /\ cli_found' = [some |-> FALSE, index |-> 0]
                /\ cli_pc' = "failed"
           ELSE /\ cli_found' = [some |-> TRUE,
                                 index |-> CHOOSE i \in hits : \A j \in hits : i <= j]
                /\ cli_pc' = "found"
    /\ UNCHANGED <<chain, cli_args, cli_proof, cli_input, cli_result, cli_public>>

\* main.rs:85 and 121-125: keys = compute_storage_keys(0, 1), computed before
\* the search, and get_proof(address, [keys.0, keys.1])
FetchProof ==
    /\ cli_pc = "found"
    /\ LET keys == compute_storage_keys(0, 1)
       IN  cli_proof' = get_proof(chain, cli_args.address, <<keys[1], keys[2]>>)
    /\ cli_pc' = "fetched"
    /\ UNCHANGED <<chain, cli_args, cli_found, cli_input, cli_result, cli_public>>

\* main.rs:127-141: the WithdrawalInput and process_withdrawal(&input).unwrap()
BuildAndProcess ==
    /\ cli_pc = "fetched"
    /\ cli_input' = WithdrawalInput(cli_args.secret, cli_found.index, cli_proof,
                                    Header(StateRootA, 5), NoBranches,
                                    cli_args.address, 0, 0,
                                    AddressWithLastByte(0), AddressWithLastByte(0))
    /\ cli_result' = process_withdrawal(cli_input')
    /\ cli_pc' = IF cli_result'.status = "ok" THEN "processed" ELSE "panicked"
    /\ UNCHANGED <<chain, cli_args, cli_found, cli_proof, cli_public>>

\* main.rs:143-171: return without flags; otherwise run the program on the
\* serialized input, once for --execute and once for --prove (each .unwrap())
RunProgram ==
    /\ cli_pc = "processed"
    /\ LET run == guest_main(cbor_to_vec(cli_input))
           runs == (IF cli_args.execute THEN <<run>> ELSE <<>>)
                   \o (IF cli_args.prove THEN <<run>> ELSE <<>>)
       IN  /\ cli_public' = [k \in 1..Len(runs) |-> runs[k].committed]
           /\ cli_pc' = IF \E k \in 1..Len(runs) : runs[k].aborted
                        THEN "panicked" ELSE "done"
    /\ UNCHANGED <<chain, cli_args, cli_found, cli_proof, cli_input, cli_result>>

----------------------------------------------------------------------------
(* Specifications *)

GuestIdle ==
    /\ pc = "idle"
    /\ stdin = [wellformed |-> FALSE, payload |-> NoInput]
    /\ input = NoInput
    /\ result = NoResult
    /\ committed = <<>>

\* the guest program on any input buffer, under either build profile
Init ==
    /\ overflow_checks \in BOOLEAN
    /\ GuestInit /\ RootIdle /\ DepositIdle /\ CliIdle

Next ==
    \/ Deserialize /\ UNCHANGED <<overflow_checks, rootVars, depositVars, cliVars>>
    \/ Process /\ UNCHANGED <<overflow_checks, rootVars, depositVars, cliVars>>
    \/ Commit /\ UNCHANGED <<overflow_checks, rootVars, depositVars, cliVars>>

Spec == Init /\ [][Next]_vars

\* compute_inclusion_root on drawn arguments, under either build profile
InitRoot ==
    /\ overflow_checks \in BOOLEAN
    /\ GuestIdle /\ RootInit /\ DepositIdle /\ CliIdle

NextRoot ==
    ComputeRoot /\ UNCHANGED <<overflow_checks, guestVars, depositVars, cliVars>>

SpecRoot == InitRoot /\ [][NextRoot]_vars

\* runs of the CLI's deposit command
InitDeposit ==
    /\ overflow_checks \in BOOLEAN
    /\ GuestIdle /\ RootIdle /\ DepositIdle /\ CliIdle

NextDeposit ==
    Deposit /\ UNCHANGED <<overflow_checks, guestVars, rootVars, cliVars>>

SpecDeposit == InitDeposit /\ [][NextDeposit]_vars

\* one run of the CLI's withdraw command against an honest provider
InitWithdraw ==
    /\ overflow_checks \in BOOLEAN
    /\ GuestIdle /\ RootIdle /\ DepositIdle /\ WithdrawInit

NextWithdraw ==
    \/ SearchDeposits /\ UNCHANGED <<overflow_checks, guestVars, rootVars, depositVars>>
    \/ FetchProof /\ UNCHANGED <<overflow_checks, guestVars, rootVars, depositVars>>
    \/ BuildAndProcess /\ UNCHANGED <<overflow_checks, guestVars, rootVars, depositVars>>
    \/ RunProgram /\ UNCHANGED <<overflow_checks, guestVars, rootVars, depositVars>>

SpecWithdraw == InitWithdraw /\ [][NextWithdraw]_vars

----------------------------------------------------------------------------
(* The steps of section 4.3, stated on a WithdrawalInput from the trie proofs  *)
(* themselves: what each proof authenticates, read off the proof.              *)

\* process_withdrawal was called in this run
Called == result.status # "none"

\* the outcome of verify_storage_slot inside the call, as the run shows it:
\* process_withdrawal goes past the `?` only on Ok(())
VerifyOutcome == IF result.status = "err" THEN result.msg ELSE "ok"

StepAddress(in) == in.account_proof.address = in.contract_address

StepAccount(in) ==
    LET b == in.account_proof
    IN  /\ b.account_proof.root = in.block_header.state_root
        /\ b.account_proof.path = PathOf(in.contract_address)
        /\ b.account_proof.value =
               RlpAccount([nonce |-> b.nonce, balance |-> b.balance,
                           code_hash |-> b.code_hash, storage_root |-> b.storage_hash])

StepShape(in) == Len(in.account_proof.storage_proof) = 2

StepLength(in) ==
    LET b == in.account_proof
        first == b.storage_proof[1]
    IN  /\ first.proof.root = b.storage_hash
        /\ first.proof.path = PathOf(ToBeBytes(in.array_slot))
        /\ first.proof.value = RlpUint(first.value)

StepIndex(in) == in.array_index < in.account_proof.storage_proof[1].value

StepElement(in) ==
    LET b == in.account_proof
        second == b.storage_proof[2]
    IN  /\ second.proof.root = b.storage_hash
        /\ second.proof.path = PathOf(SlotOfElement(in.array_slot, in.array_index))
        /\ second.proof.value = RlpBytes(Keccak256(in.secret))

AllSteps(in) ==
    /\ StepAddress(in) /\ StepAccount(in) /\ StepShape(in)
    /\ StepLength(in) /\ StepIndex(in) /\ StepElement(in)

\* the first step of 4.3 that fails on the input, "none" if all pass
FirstFailing(in) ==
    IF ~StepAddress(in) THEN "address"
    ELSE IF ~StepAccount(in) THEN "account"
    ELSE IF ~StepShape(in) THEN "shape"
    ELSE IF ~StepLength(in) THEN "length"
    ELSE IF ~StepIndex(in) THEN "index"
    ELSE IF ~StepElement(in) THEN "element"
    ELSE "none"

\* the steps other than the address check, taken with the bundle's own address
OtherStepsPass(in) ==
    LET own == [in EXCEPT !.contract_address = in.account_proof.address]
    IN  /\ StepAccount(own) /\ StepShape(own) /\ StepLength(own)
        /\ StepIndex(own) /\ StepElement(own)

----------------------------------------------------------------------------
(* Claims on the guest program *)

\* C1 (as claimed): the committed output is eight slots in the order nullifier,
\* blockNumber, blockHash, exclusionSetRoot, relayerFee, recipient, relayer,
\* contractAddress.
C1_SpecOrder ==
    pc = "done" =>
        /\ Len(committed[1]) = 8
        /\ committed[1][1] = result.data.nullifier
        /\ committed[1][2] = AbiUint(result.data.blockNumber)
        /\ committed[1][3] = result.data.blockHash
        /\ committed[1][4] = result.data.exclusionSetRoot
        /\ committed[1][5] = AbiUint(result.data.relayerFee)
        /\ committed[1][6] = AbiAddress(result.data.recipient)
        /\ committed[1][7] = AbiAddress(result.data.relayer)
        /\ committed[1][8] = AbiAddress(result.data.contractAddress)

\* C1 (amended): the committed output is eight slots in the order nullifier,
\* blockHash, exclusionSetRoot, relayerFee, recipient, relayer, contractAddress,
\* blockNumber: blockHash is the second slot and blockNumber the last.
C1_DeclaredOrder ==
    pc = "done" =>
        /\ Len(committed[1]) = 8
        /\ committed[1][1] = result.data.nullifier
        /\ committed[1][2] = result.data.blockHash
        /\ committed[1][3] = result.data.exclusionSetRoot
        /\ committed[1][4] = AbiUint(result.data.relayerFee)
        /\ committed[1][5] = AbiAddress(result.data.recipient)
        /\ committed[1][6] = AbiAddress(result.data.relayer)
        /\ committed[1][7] = AbiAddress(result.data.contractAddress)
        /\ committed[1][8] = AbiUint(result.data.blockNumber)

C1_Witness ==
    /\ pc = "done"
    /\ Len(committed) = 1
    /\ committed[1][8] = AbiUint(5)
    /\ committed[1][2] = result.data.blockHash

\* C2: verify_storage_slot returns success only if the address matches, the
\* account record verifies under state_root at key contract_address, there are
\* exactly two storage proofs, the first proves the claimed length at array_slot
\* and the second the commitment at hash(array_slot)+array_index, both under the
\* storage root of the authenticated account record, and array_index < length.
C2_SuccessOnlyIfAllSteps ==
    (Called /\ VerifyOutcome = "ok") => AllSteps(input)

C2_Witness ==
    /\ Called /\ VerifyOutcome = "ok"
    /\ input.account_proof.storage_hash = StorageRootB
    /\ input.array_index = MaxArrayLen - 1

\* C3: whenever the bundle's address differs from contract_address the call
\* fails with the address-mismatch error ("invalid contract address"), whatever
\* the other checks would say.
C3_AddressMismatchFirst ==
    (Called /\ input.account_proof.address # input.contract_address) =>
        (result.status = "err" /\ result.msg = "invalid contract address")

C3_Witness ==
    /\ Called
    /\ input.account_proof.address # input.contract_address
    /\ OtherStepsPass(input)
    /\ result.msg = "invalid contract address"

MessageOf(step) ==
    CASE step = "address" -> "invalid contract address"
      [] step = "shape" -> "invalid storage proof"
      [] step = "index" -> "invalid array index"
      [] step \in {"account", "length", "element"} -> "invalid proof"
      [] OTHER -> ""

\* a valid input, and three calls that each fail exactly one trie proof
GoodInput ==
    WithdrawalInput(ToBeBytes(1), 0,
                    ProofResponse(AddrA, StorageRootA,
                                  AccountProofFor(StateRootA, AddrA, StorageRootA),
                                  <<GoodLengthProof, GoodElementProof>>),
                    Header(StateRootA, 5), NoBranches, AddrA, 0, 7,
                    AddressWithLastByte(3), AddrB)
FailsAccountProof == [GoodInput EXCEPT !.block_header = Header(StateRootB, 5)]
FailsLengthProof == [GoodInput EXCEPT !.array_slot = 1]
FailsElementProof == [GoodInput EXCEPT !.secret = ToBeBytes(Modulus - 1)]
ReferenceFailures == {FailsAccountProof, FailsLengthProof, FailsElementProof}

\* C5 (as claimed): the error a failed call returns identifies the check that
\* failed: a call that fails one check and a call that fails another (account
\* proof, length proof, element proof) never return the same error.
C5_KindsDistinguishable ==
    (Called /\ result.status = "err") =>
        \A ref \in ReferenceFailures :
            (process_withdrawal(ref).msg = result.msg) =>
                (FirstFailing(ref) = FirstFailing(input))

\* C5 (amended): every failure of verify_storage_slot reaches the caller, through
\* process_withdrawal unchanged, as an error whose message is "invalid contract
\* address" (address), "invalid storage proof" (count other than two), "invalid
\* array index" (index bound) or "invalid proof" (account proof, length proof
\* and element proof alike: these three are not told apart).
C5_ErrorMessages ==
    Called =>
        /\ (FirstFailing(input) # "none") =>
               (result.status = "err" /\ result.msg = MessageOf(FirstFailing(input)))
        /\ (result.status = "err") =>
               /\ FirstFailing(input) # "none"
               /\ result.msg = verify_storage_slot(
                                   input.contract_address, input.array_slot,
                                   Keccak256(input.secret), input.array_index,
                                   input.block_header.state_root, input.account_proof)

C5_Witness ==
    /\ Called
    /\ FirstFailing(input) = "length"
    /\ result.status = "err"
    /\ result.msg = "invalid proof"
    /\ process_withdrawal(FailsAccountProof).msg = result.msg

RECURSIVE ClaimedRoot(_, _, _, _)
\* the fold of section 4.1 from depth i with the running root: bit i of the
\* index (bit i of a 32-bit unsigned value is 0 for i >= 32) orders the pair
ClaimedRoot(root, index, siblings, i) ==
    IF i >= Len(siblings) THEN root
    ELSE LET next == IF i \in index
                     THEN Keccak256(Concat64(siblings[i + 1], root))
                     ELSE Keccak256(Concat64(root, siblings[i + 1]))
         IN  IF next = <<>> THEN next ELSE ClaimedRoot(next, index, siblings, i + 1)

\* C7: whenever process_withdrawal returns an output it is nullifier = H(secret+1),
\* blockHash and blockNumber of the supplied header, exclusionSetRoot = the
\* inclusion root of H(secret) under the branches (zero without branches), and
\* relayerFee, recipient, relayer, contractAddress as supplied; and the inclusion
\* branches never make the call fail (it fails only when a step of 4.3 fails).
C7_OutputAsSpecified ==
    Called =>
        /\ AllSteps(input) => result.status = "ok"
        /\ result.status = "ok" =>
             LET br == input.inclusion_set_branches
             IN  result.data =
                   WithdrawalData(
                     Keccak256(ToBeBytes((FromBeSlice(input.secret) + 1) % Modulus)),
                     Keccak256(<<192>> \o RlpBytes(input.block_header.state_root)
                                       \o RlpUint(input.block_header.number)),
                     IF br.present
                     THEN ClaimedRoot(Keccak256(input.secret), br.index, br.proof, 0)
                     ELSE B256Zero,
                     input.relayer_fee, input.recipient, input.relayer,
                     input.contract_address, input.block_header.number)

\* C8: output is committed at most once, and only after deserialization and
\* process_withdrawal both succeeded: a run whose input is malformed or fails a
\* verification step never holds committed output, and an aborted run holds none.
C8_CommitOnlyAfterSuccess ==
    /\ Len(committed) <= 1
    /\ (committed # <<>>) =>
           /\ pc = "done"
           /\ stdin.wellformed
           /\ input = stdin.payload
           /\ result.status = "ok"
           /\ AllSteps(input)
           /\ committed[1] = abi_encode(result.data)
    /\ (pc = "aborted") => committed = <<>>
    /\ (~stdin.wellformed \/ ~AllSteps(stdin.payload)) => committed = <<>>

C8_Witness ==
    /\ pc = "done"
    /\ Len(committed) = 1
    /\ stdin.wellformed
    /\ input.inclusion_set_branches.present

----------------------------------------------------------------------------
(* Claims on compute_inclusion_root, compute_commitment and the CLI *)

\* C6: for every proof length, the empty proof and proofs longer than the index
\* is wide included, compute_inclusion_root returns the fold of section 4.1
\* (bit i of the index orders the pair at depth i; bit i is 0 for i >= 32), and
\* never aborts.
C6_FoldAtEveryLength ==
    (ir_out.state \notin {"idle", "none"}) =>
        /\ ir_out.state = "returned"
        /\ ir_out.root = ClaimedRoot(ir_leaf, ir_branches.index, ir_branches.proof, 0)

\* what does hold of compute_inclusion_root: the fold, for proofs of at most
\* IndexBits levels
FoldUpToIndexWidth ==
    (ir_out.state \notin {"idle", "none"} /\ Len(ir_branches.proof) <= IndexBits) =>
        /\ ir_out.state = "returned"
        /\ ir_out.root = ClaimedRoot(ir_leaf, ir_branches.index, ir_branches.proof, 0)

\* C9: for every secret s, s = 2^256 - 1 included, compute_commitment returns
\* commitment = H(s) and nullifier = H((s + 1) mod 2^256) without aborting, runs
\* on the same secret return the same pair, and commitment # nullifier.
C9_CommitmentScheme ==
    \A k \in 1..Len(dep_out) :
        LET e == dep_out[k]
        IN  /\ e.commitment = Keccak256(e.secret)
            /\ e.nullifier = Keccak256(ToBeBytes((FromBeSlice(e.secret) + 1) % Modulus))
            /\ e.commitment # e.nullifier
            /\ \A j \in 1..Len(dep_out) :
                  (dep_out[j].secret = e.secret) =>
                      /\ dep_out[j].commitment = e.commitment
                      /\ dep_out[j].nullifier = e.nullifier

C9_Witness ==
    /\ Len(dep_out) >= 2
    /\ dep_out[1].secret = [i \in 1..WordBytes |-> ByteVals - 1]
    /\ dep_out[1].nullifier = Keccak256(B256Zero)
    /\ dep_out[2].secret = dep_out[1].secret

\* C10: in the withdraw workflow the second storage proof requested is the one
\* of the element slot of the found index, hash(array_slot) + array_index for the
\* array_index placed in the WithdrawalInput, so process_withdrawal succeeds on
\* the constructed input for a commitment found at any index.
C10_RequestedKeysMatchIndex ==
    (cli_pc \in {"processed", "panicked", "done"}) =>
        /\ cli_proof.storage_proof[1].key = ToBeBytes(cli_input.array_slot)
        /\ cli_proof.storage_proof[2].key =
               SlotOfElement(cli_input.array_slot, cli_input.array_index)
        /\ cli_result.status = "ok"

====
